---- MODULE Spec2Model ----
(***************************************************************************)
(* Uniform replay buffer of dejax (src/dejax/uniform.py): a fixed-capacity *)
(* circular storage with a write cursor (head), a read cursor (tail) and a *)
(* fullness flag, and the six pure operations built by uniform_replay:     *)
(* init_fn, size_fn, add_fn, add_batch_fn, sample_fn and update_fn.        *)
(*                                                                         *)
(* The caller holds one buffer state value and replaces it by the value    *)
(* each operation returns; the variable `state` is that value.  The        *)
(* modules dejax.circular_buffer and dejax.utils are not part of the       *)
(* sources at hand: their operations (init, max_size, size, push,          *)
(* get_at_index, set_pytree_batch_items) are modelled from the written     *)
(* specification, sections 4.1 and 4.2.                                    *)
(***************************************************************************)
EXTENDS Integers, Sequences, FiniteSets

\* ---------------------------------------------------------------- bounds
\* Largest capacity passed to uniform_replay(max_size).
MaxSize == 3
\* Items are the numbers 0..MaxItem (an item is one fixed-shape record).
MaxItem == 3
\* Longest batch passed to add_batch_fn and largest batch_size of sample_fn.
MaxBatch == 2
\* Random keys are the numbers 0..MaxKey.
MaxKey == 1

Items == 0..MaxItem
Keys == 0..MaxKey
\* Longest run of add_fn calls whose items are remembered in `log`.
MaxLog == MaxSize + 1

\* The batches handed to add_batch_fn: n consecutive items from item b on,
\* for 0 <= n <= MaxBatch.
ItemBatches ==
    {[i \in 1..n |-> (b + i - 1) % (MaxItem + 1)] : b \in Items, n \in 0..MaxBatch}

\* The prototypes handed to init_fn.
ItemPrototypes == {0}

\* The item transforms handed to update_fn.
ItemUpdateFns == {"id", "inc", "zero"}

\* item_update_fn(item) for each of the transforms above.
ApplyItemUpdate(f, item) ==
    CASE f = "id" -> item
      [] f = "inc" -> (item + 1) % (MaxItem + 1)
      [] f = "zero" -> 0

VARIABLES
    max_size,   \* the capacity captured by uniform_replay(max_size)
    state,      \* the caller's current UniformReplayBufferState
    ret,        \* the last call: operation, arguments, what it returned
    log,        \* items inserted by add_fn since init_fn, oldest first
    only_adds,  \* TRUE while the history since init_fn is add_fn calls
                \* with distinct items, and `log` holds all of them
    recent,     \* the last (at most max_size) items inserted since init_fn,
                \* oldest first, as the update_fn calls since have left them
    applied     \* TRUE once add_fn or add_batch_fn was called since init_fn

vars == <<max_size, state, ret, log, only_adds, recent, applied>>

\* ------------------------------------------------- dejax.circular_buffer
\* circular_buffer.init: storage of max_size slots shaped like the
\* prototype (every slot holds the prototype), both cursors 0, not full.
init(item_prototype, n) ==
    [data |-> [i \in 0..(n - 1) |-> item_prototype],
     head |-> 0, tail |-> 0, full |-> FALSE]

\* circular_buffer.max_size: the leading dimension of the storage.
buffer_max_size(buffer) == Cardinality(DOMAIN buffer.data)

\* circular_buffer.size: the logical number of items.
size(buffer) ==
    IF buffer.full
    THEN buffer_max_size(buffer)
    ELSE (buffer.head - buffer.tail) % buffer_max_size(buffer)

\* circular_buffer.push: write at head, advance head, evict the oldest
\* item (advance tail) when the buffer was full.
push(buffer, item) ==
    LET n == buffer_max_size(buffer)
        new_head == (buffer.head + 1) % n
        new_tail == IF buffer.full THEN (buffer.tail + 1) % n ELSE buffer.tail
    IN  [data |-> [buffer.data EXCEPT ![buffer.head] = item],
         head |-> new_head,
         tail |-> new_tail,
         full |-> (new_head = new_tail)]

\* circular_buffer.get_at_index: the item at a logical offset from tail.
get_at_index(buffer, index) ==
    buffer.data[(buffer.tail + index) % buffer_max_size(buffer)]

\* utils.set_pytree_batch_items: the batch written into consecutive slots
\* from pos on, modulo the capacity; a slot written twice keeps the later
\* item.
set_pytree_batch_items(data, pos, batch) ==
    LET n == Cardinality(DOMAIN data)
        hits(i) == {j \in 1..Len(batch) : (pos + j - 1) % n = i}
        last(S) == CHOOSE j \in S : \A k \in S : k <= j
    IN  [i \in DOMAIN data |->
            IF hits(i) = {} THEN data[i] ELSE batch[last(hits(i))]]

\* The logical contents, oldest first.
Contents(buffer) == [k \in 1..size(buffer) |-> get_at_index(buffer, k - 1)]

\* ------------------------------------------------------ jax.random.randint
\* The pseudo-random word a key yields at position i of a draw.
random_bits(rng, i) == rng \div (2 ^ (i - 1))

\* jax.random.randint(rng, minval, maxval, shape=(n,)): n integers of
\* [minval, maxval), a fixed function of the key; minval when the range is
\* empty.
randint(rng, minval, maxval, n) ==
    LET span == IF maxval <= minval THEN 1 ELSE maxval - minval
    IN  [i \in 1..n |-> minval + (random_bits(rng, i) % span)]

\* ------------------------------------------------------ dejax/uniform.py
\* A buffer draw that indexes by capacity instead of by logical size.
uniform_sample_capacity(buffer, rng, batch_size) ==
    LET sample_pos == randint(rng, 0, buffer_max_size(buffer), batch_size)
    IN  IF ~(size(buffer) > 0)
        THEN [err |-> TRUE, idx |-> <<>>, out |-> <<>>]
        ELSE [err |-> FALSE, idx |-> sample_pos,
              out |-> [i \in 1..batch_size |-> get_at_index(buffer, sample_pos[i])]]

\* A buffer draw that reads physical slots instead of logical offsets.
uniform_sample_physical(buffer, rng, batch_size) ==
    LET sample_pos == randint(rng, 0, size(buffer), batch_size)
    IN  IF ~(size(buffer) > 0)
        THEN [err |-> TRUE, idx |-> <<>>, out |-> <<>>]
        ELSE [err |-> FALSE, idx |-> sample_pos,
              out |-> [i \in 1..batch_size |-> buffer.data[sample_pos[i]]]]

\* A buffer draw whose emptiness check accepts size 0.
uniform_sample_weak_check(buffer, rng, batch_size) ==
    LET sample_pos == randint(rng, 0, size(buffer), batch_size)
    IN  IF ~(size(buffer) >= 0)
        THEN [err |-> TRUE, idx |-> <<>>, out |-> <<>>]
        ELSE [err |-> FALSE, idx |-> sample_pos,
              out |-> [i \in 1..batch_size |-> get_at_index(buffer, sample_pos[i])]]

\* uniform_sample: fails on an empty buffer; otherwise draws batch_size
\* logical offsets in [0, size) from the key and reads each of them.
\* err: the check failed; idx: sample_pos; out: the returned batch.
uniform_sample(buffer, rng, batch_size) ==
    LET sample_pos == randint(rng, 0, size(buffer), batch_size)
    IN  IF ~(size(buffer) > 0)
        THEN [err |-> TRUE, idx |-> <<>>, out |-> <<>>]
        ELSE [err |-> FALSE, idx |-> sample_pos,
              out |-> [i \in 1..batch_size |-> get_at_index(buffer, sample_pos[i])]]

\* An init_fn that stores the prototype as a first item.
init_fn_with_item(item_prototype) ==
    [storage |-> push(init(item_prototype, max_size), item_prototype)]

\* init_fn
init_fn(item_prototype) == [storage |-> init(item_prototype, max_size)]

\* size_fn
size_fn(st) == size(st.storage)

\* sample_fn
sample_fn(st, rng, batch_size) == uniform_sample(st.storage, rng, batch_size)

\* An update_fn that builds the storage anew around the updated data.
update_fn_fresh_cursors(st, item_update_fn) ==
    LET updated_data ==
            [i \in DOMAIN st.storage.data |->
                ApplyItemUpdate(item_update_fn, st.storage.data[i])]
    IN  [st EXCEPT !.storage =
            [data |-> updated_data, head |-> 0, tail |-> 0, full |-> FALSE]]

\* An update_fn whose mapped data comes back shifted by one slot.
update_fn_shifted(st, item_update_fn) ==
    LET n == buffer_max_size(st.storage)
        updated_data ==
            [i \in DOMAIN st.storage.data |->
                ApplyItemUpdate(item_update_fn, st.storage.data[(i + 1) % n])]
    IN  [st EXCEPT !.storage.data = updated_data]

\* An update_fn that transforms only the slots of the logical window.
update_fn_window_only(st, item_update_fn) ==
    LET n == buffer_max_size(st.storage)
        updated_data ==
            [i \in DOMAIN st.storage.data |->
                IF (i - st.storage.tail) % n < size(st.storage)
                THEN ApplyItemUpdate(item_update_fn, st.storage.data[i])
                ELSE st.storage.data[i]]
    IN  [st EXCEPT !.storage.data = updated_data]

\* update_fn: the transform mapped over every physical slot.
update_fn(st, item_update_fn) ==
    LET updated_data ==
            [i \in DOMAIN st.storage.data |->
                ApplyItemUpdate(item_update_fn, st.storage.data[i])]
    IN  [st EXCEPT !.storage.data = updated_data]

\* An add_batch_fn that advances head by one slot, as push does.
add_batch_fn_head_by_one(st, batch) ==
    LET buffer == st.storage
        insert_pos == buffer.head
        new_data == set_pytree_batch_items(buffer.data, insert_pos, batch)
        new_head == (insert_pos + 1) % buffer_max_size(buffer)
        new_tail == IF buffer.full THEN 0 ELSE buffer.tail
        new_full == (new_head = new_tail)
    IN  [st EXCEPT !.storage =
            [data |-> new_data, head |-> new_head,
             tail |-> new_tail, full |-> new_full]]

\* An add_batch_fn that inserts at tail instead of head.
add_batch_fn_from_tail(st, batch) ==
    LET buffer == st.storage
        insert_pos == buffer.tail
        new_data == set_pytree_batch_items(buffer.data, insert_pos, batch)
        new_head == (insert_pos + Len(batch)) % buffer_max_size(buffer)
        new_tail == IF buffer.full THEN 0 ELSE buffer.tail
        new_full == (new_head = new_tail)
    IN  [st EXCEPT !.storage =
            [data |-> new_data, head |-> new_head,
             tail |-> new_tail, full |-> new_full]]

\* An add_batch_fn that moves tail to the new head when full, as push keeps them together.
add_batch_fn_tail_follows_head(st, batch) ==
    LET buffer == st.storage
        insert_pos == buffer.head
        new_data == set_pytree_batch_items(buffer.data, insert_pos, batch)
        new_head == (insert_pos + Len(batch)) % buffer_max_size(buffer)
        new_tail == IF buffer.full THEN new_head ELSE buffer.tail
        new_full == (new_head = new_tail)
    IN  [st EXCEPT !.storage =
            [data |-> new_data, head |-> new_head,
             tail |-> new_tail, full |-> new_full]]

\* An add_batch_fn that does not wrap the new head.
add_batch_fn_no_mod(st, batch) ==
    LET buffer == st.storage
        insert_pos == buffer.head
        new_data == set_pytree_batch_items(buffer.data, insert_pos, batch)
        new_head == insert_pos + Len(batch)
        new_tail == IF buffer.full THEN 0 ELSE buffer.tail
        new_full == (new_head = new_tail)
    IN  [st EXCEPT !.storage =
            [data |-> new_data, head |-> new_head,
             tail |-> new_tail, full |-> new_full]]

\* An add_batch_fn that keeps the old fullness flag.
add_batch_fn_stale_full(st, batch) ==
    LET buffer == st.storage
        insert_pos == buffer.head
        new_data == set_pytree_batch_items(buffer.data, insert_pos, batch)
        new_head == (insert_pos + Len(batch)) % buffer_max_size(buffer)
        new_tail == IF buffer.full THEN 0 ELSE buffer.tail
        new_full == buffer.full
    IN  [st EXCEPT !.storage =
            [data |-> new_data, head |-> new_head,
             tail |-> new_tail, full |-> new_full]]

\* An add_batch_fn that compares the new head with the old tail.
add_batch_fn_full_by_old_tail(st, batch) ==
    LET buffer == st.storage
        insert_pos == buffer.head
        new_data == set_pytree_batch_items(buffer.data, insert_pos, batch)
        new_head == (insert_pos + Len(batch)) % buffer_max_size(buffer)
        new_tail == IF buffer.full THEN 0 ELSE buffer.tail
        new_full == (new_head = buffer.tail)
    IN  [st EXCEPT !.storage =
            [data |-> new_data, head |-> new_head,
             tail |-> new_tail, full |-> new_full]]

\* An add_batch_fn that never resets tail.
add_batch_fn_keep_tail(st, batch) ==
    LET buffer == st.storage
        insert_pos == buffer.head
        new_data == set_pytree_batch_items(buffer.data, insert_pos, batch)
        new_head == (insert_pos + Len(batch)) % buffer_max_size(buffer)
        new_tail == buffer.tail
        new_full == (new_head = new_tail)
    IN  [st EXCEPT !.storage =
            [data |-> new_data, head |-> new_head,
             tail |-> new_tail, full |-> new_full]]

\* add_batch_fn: the batch written from head on, head advanced by its
\* length, tail reset to 0 when the buffer was full.
add_batch_fn(st, batch) ==
    LET buffer == st.storage
        insert_pos == buffer.head
        new_data == set_pytree_batch_items(buffer.data, insert_pos, batch)
        new_head == (insert_pos + Len(batch)) % buffer_max_size(buffer)
        new_tail == IF buffer.full THEN 0 ELSE buffer.tail
        new_full == (new_head = new_tail)
    IN  [st EXCEPT !.storage =
            [data |-> new_data, head |-> new_head,
             tail |-> new_tail, full |-> new_full]]

\* An add_fn that inserts through the batch routine.
add_fn_as_batch(st, item) == add_batch_fn(st, <<item>>)

\* add_fn
add_fn(st, item) == [st EXCEPT !.storage = push(st.storage, item)]

\* ---------------------------------------------------------------- calls
\* The last (at most n) elements of s, in order.
KeepLast(s, n) ==
    IF Len(s) <= n THEN s ELSE [k \in 1..n |-> s[Len(s) - n + k]]

\* The cursors and logical size of a state, kept with the call made on it.
Cursor(st) ==
    [head |-> st.storage.head, tail |-> st.storage.tail,
     full |-> st.storage.full, size |-> size_fn(st)]

\* The record of a call; unused fields keep these values.
Call(op, st) ==
    [op |-> op, was |-> Cursor(st), arg |-> <<>>, f |-> "", key |-> 0,
     bs |-> 0, err |-> FALSE, idx |-> <<>>, out |-> <<>>]

Init ==
    /\ max_size \in 1..MaxSize
    /\ \E item_prototype \in ItemPrototypes :
          /\ state = init_fn(item_prototype)
          /\ ret = Call("init", state)
    /\ log = <<>>
    /\ only_adds = TRUE
    /\ recent = <<>>
    /\ applied = FALSE

\* The caller starts over with a new buffer.
InitFn ==
    \E item_prototype \in ItemPrototypes :
       /\ state' = init_fn(item_prototype)
       /\ ret' = Call("init", state')
       /\ log' = <<>>
       /\ only_adds' = TRUE
       /\ recent' = <<>>
       /\ applied' = FALSE
       /\ UNCHANGED max_size

SizeFn ==
    /\ ret' = [Call("size", state) EXCEPT !.out = <<size_fn(state)>>]
    /\ UNCHANGED <<max_size, state, log, only_adds, recent, applied>>

AddFn ==
    \E item \in Items :
       /\ state' = add_fn(state, item)
       /\ ret' = [Call("add", state) EXCEPT !.arg = <<item>>]
       /\ IF only_adds /\ Len(log) < MaxLog /\ \A i \in 1..Len(log) : log[i] # item
          THEN log' = Append(log, item) /\ only_adds' = TRUE
          ELSE log' = <<>> /\ only_adds' = FALSE
       /\ recent' = KeepLast(Append(recent, item), max_size)
       /\ applied' = TRUE
       /\ UNCHANGED max_size

AddBatchFn ==
    \E batch \in ItemBatches :
       /\ state' = add_batch_fn(state, batch)
       /\ ret' = [Call("add_batch", state) EXCEPT !.arg = batch]
       /\ log' = <<>>
       /\ only_adds' = FALSE
       /\ recent' = KeepLast(recent \o batch, max_size)
       /\ applied' = TRUE
       /\ UNCHANGED max_size

SampleFn ==
    \E rng \in Keys, batch_size \in 0..MaxBatch :
       LET r == sample_fn(state, rng, batch_size)
       IN  /\ ret' = [Call("sample", state) EXCEPT
                         !.key = rng, !.bs = batch_size,
                         !.err = r.err, !.idx = r.idx, !.out = r.out]
           /\ UNCHANGED <<max_size, state, log, only_adds, recent, applied>>

UpdateFn ==
    \E item_update_fn \in ItemUpdateFns :
       /\ state' = update_fn(state, item_update_fn)
       /\ ret' = [Call("update", state) EXCEPT !.f = item_update_fn]
       /\ log' = <<>>
       /\ only_adds' = FALSE
       /\ recent' = [k \in 1..Len(recent) |-> ApplyItemUpdate(item_update_fn, recent[k])]
       /\ UNCHANGED <<max_size, applied>>

Next ==
    \/ InitFn
    \/ SizeFn
    \/ AddFn
    \/ AddBatchFn
    \/ SampleFn
    \/ UpdateFn

Spec == Init /\ [][Next]_vars

\* ------------------------------------------------------------ the claims
TypeOK ==
    /\ max_size \in 1..MaxSize
    /\ DOMAIN state.storage.data = 0..(max_size - 1)
    /\ \A i \in DOMAIN state.storage.data : state.storage.data[i] \in Items
    /\ state.storage.head \in 0..(max_size - 1)
    /\ state.storage.tail \in 0..(max_size - 1)
    /\ state.storage.full \in BOOLEAN
    /\ only_adds \in BOOLEAN
    /\ Len(log) <= MaxLog
    /\ Len(recent) <= max_size
    /\ applied \in BOOLEAN

\* No item occurs twice in s.
Distinct(s) == \A i, j \in 1..Len(s) : i # j => s[i] # s[j]

\* The last n elements of s, in order.
LastN(s, n) == [k \in 1..n |-> s[Len(s) - n + k]]

\* The elements of s.
Range(s) == {s[i] : i \in 1..Len(s)}

\* The state after add_fn on each item of the batch, in order.
RECURSIVE AddAll(_, _)
AddAll(st, batch) ==
    IF batch = <<>> THEN st ELSE AddAll(add_fn(st, Head(batch)), Tail(batch))

\* C1: after k > max_size add_fn calls with distinct items and nothing
\* else since init_fn, the size is max_size, the logical contents are the
\* last max_size inserted items in insertion order, and no earlier item is
\* still in the window.
C1_FifoEviction ==
    (only_adds /\ Len(log) > max_size /\ Distinct(log)) =>
        /\ size_fn(state) = max_size
        /\ Contents(state.storage) = LastN(log, max_size)
        /\ \A i \in 1..(Len(log) - max_size) :
              log[i] \notin Range(Contents(state.storage))

C1_Witness ==
    /\ only_adds /\ Distinct(log)
    /\ max_size >= 2
    /\ Len(log) > max_size
    /\ ret.op = "add"

\* C2: after k add_fn calls with distinct items, 0 < k <= max_size, and
\* nothing else since init_fn, the size is k and a sample_fn call returns
\* only items among those k.
C2_PartialFill ==
    (only_adds /\ Len(log) > 0 /\ Len(log) <= max_size /\ Distinct(log)) =>
        /\ size_fn(state) = Len(log)
        /\ ret.op = "sample" =>
              \A i \in 1..Len(ret.out) : ret.out[i] \in Range(log)

C2_Witness ==
    /\ only_adds /\ Distinct(log)
    /\ Len(log) > 1 /\ Len(log) < max_size
    /\ ret.op = "sample" /\ Len(ret.out) >= 2
    /\ ret.out[1] # ret.out[2]

\* C3: a sample_fn call on a buffer of logical size 0 fails with the
\* empty-buffer error whatever the key and batch_size, returns no batch
\* and leaves the buffer state as it was.
C3_EmptySampleFails ==
    [][(ret'.op = "sample" /\ size_fn(state) = 0) =>
          (ret'.err /\ ret'.out = <<>> /\ ret'.idx = <<>> /\ state' = state)]_vars

C3_Witness ==
    /\ ret.op = "sample" /\ ret.err
    /\ ret.bs > 0 /\ ret.key > 0
    /\ size_fn(state) = 0

\* C4: in every reachable state of size > 0, each index sample_fn draws
\* lies in [0, size) and each returned item is the content of the physical
\* slot (tail + index) mod max_size.
C4_SampleInWindow ==
    (ret.op = "sample" /\ ~ret.err) =>
        /\ Len(ret.idx) = ret.bs /\ Len(ret.out) = ret.bs
        /\ \A i \in 1..ret.bs :
              /\ ret.idx[i] \in 0..(size_fn(state) - 1)
              /\ ret.out[i] =
                    state.storage.data[(state.storage.tail + ret.idx[i]) % max_size]

C4_Witness ==
    /\ ret.op = "sample" /\ ~ret.err /\ ret.bs >= 2
    /\ state.storage.tail > 0
    /\ \E i \in 1..ret.bs : state.storage.tail + ret.idx[i] >= max_size
    /\ \E i \in 1..ret.bs : state.storage.tail + ret.idx[i] < max_size

\* C5: on a buffer that is not full, add_batch_fn with a batch of N items,
\* 1 <= N <= max_size - size, returns the state that N add_fn calls with
\* the batch items in order return: the size grows by N, the contents are
\* the old contents followed by the batch, and the buffer is full exactly
\* when size + N = max_size.
C5_BatchAsSequentialAdds ==
    [][(/\ ret'.op = "add_batch"
        /\ ~state.storage.full
        /\ Len(ret'.arg) >= 1
        /\ Len(ret'.arg) <= max_size - size_fn(state)) =>
          /\ state' = AddAll(state, ret'.arg)
          /\ size_fn(state') = size_fn(state) + Len(ret'.arg)
          /\ Contents(state'.storage) = Contents(state.storage) \o ret'.arg
          /\ state'.storage.full = (size_fn(state) + Len(ret'.arg) = max_size)]_vars

C5_Witness ==
    /\ ret.op = "add_batch"
    /\ ~ret.was.full /\ ret.was.size > 0
    /\ Len(ret.arg) >= 2
    /\ Len(ret.arg) <= max_size - ret.was.size

\* C6: the state init_fn returns is empty: head 0, tail 0, not full,
\* size 0, for every capacity.
C6_InitEmpty ==
    ret.op = "init" =>
        /\ state.storage.head = 0
        /\ state.storage.tail = 0
        /\ state.storage.full = FALSE
        /\ size_fn(state) = 0

C6_Witness == ret.op = "init" /\ max_size >= 2

\* C7: an add_fn or add_batch_fn call never makes the logical size
\* smaller, and a full buffer is still full after it.
C7_InsertsNeverShrink ==
    ret.op \in {"add", "add_batch"} =>
        /\ size_fn(state) >= ret.was.size
        /\ ret.was.full => state.storage.full

\* C8: update_fn with the identity transform returns a state equal to its
\* input: same size, same item at every logical offset.
C8_IdentityUpdate ==
    [][(ret'.op = "update" /\ ret'.f = "id") =>
          /\ state' = state
          /\ size_fn(state') = size_fn(state)
          /\ Contents(state'.storage) = Contents(state.storage)]_vars

C8_Witness ==
    /\ ret.op = "update" /\ ret.f = "id"
    /\ size_fn(state) >= 2
    /\ state.storage.tail > 0
    /\ get_at_index(state.storage, 0) # get_at_index(state.storage, 1)

\* C9: sample_fn leaves the whole buffer state unchanged, and update_fn
\* leaves head, tail, full and the logical size unchanged whatever the
\* transform.
C9_SampleUpdateFrame ==
    [][/\ ret'.op = "sample" => state' = state
       /\ ret'.op = "update" =>
             /\ state'.storage.head = state.storage.head
             /\ state'.storage.tail = state.storage.tail
             /\ state'.storage.full = state.storage.full
             /\ size_fn(state') = size_fn(state)]_vars

C9_Witness ==
    /\ ret.op = "update" /\ ret.f = "inc"
    /\ ret.was.full /\ ret.was.tail > 0
    /\ state.storage.full /\ state.storage.tail = ret.was.tail

\* The data after writing the batch items one by one, in batch order, into
\* the slots pos, pos + 1, ... taken modulo the capacity.
RECURSIVE WriteInOrder(_, _, _)
WriteInOrder(data, pos, batch) ==
    IF batch = <<>>
    THEN data
    ELSE WriteInOrder([data EXCEPT ![pos % Cardinality(DOMAIN data)] = Head(batch)],
                      pos + 1, Tail(batch))

C13_BatchCursors ==
    [][ret'.op = "add_batch" =>
          /\ state'.storage.head =
                (state.storage.head + Len(ret'.arg)) % max_size
          /\ state'.storage.tail =
                (IF state.storage.full THEN 0 ELSE state.storage.tail)
          /\ state'.storage.full =
                (state'.storage.head = state'.storage.tail)]_vars

C13_Witness ==
    /\ ret.op = "add_batch" /\ Len(ret.arg) >= 1
    /\ ret.was.full /\ ret.was.tail > 0
    /\ state.storage.tail = 0
    /\ state.storage.head > 0

\* C14: in every reachable state of size > 0, the logical window read from
\* offset 0 to size - 1 is the most recently inserted items in insertion
\* order, so slot tail holds the oldest of them and the window ends with
\* the last item inserted.
C14_WindowIsRecentInserts ==
    size_fn(state) > 0 =>
        /\ Len(recent) >= size_fn(state)
        /\ Contents(state.storage) = KeepLast(recent, size_fn(state))
        /\ state.storage.data[state.storage.tail] =
              recent[Len(recent) - size_fn(state) + 1]

\* C15: in every reachable state head and tail lie in [0, max_size), and
\* size_fn is (head - tail) mod max_size when full is false and max_size
\* when full is true, hence within [0, max_size].
C15_CursorRanges ==
    /\ state.storage.head \in 0..(max_size - 1)
    /\ state.storage.tail \in 0..(max_size - 1)
    /\ size_fn(state) =
          (IF state.storage.full
           THEN max_size
           ELSE (state.storage.head - state.storage.tail) % max_size)
    /\ size_fn(state) \in 0..max_size

C15_Witness ==
    /\ ret.op = "add_batch"
    /\ max_size >= 2
    /\ ret.was.head + Len(ret.arg) >= max_size
    /\ state.storage.head > 0

\* C16: update_fn replaces the content of every physical slot by the
\* transform of its old content, slots outside the logical window
\* included, and changes nothing else.
C16_UpdateEverySlot ==
    [][ret'.op = "update" =>
          /\ \A i \in 0..(max_size - 1) :
                state'.storage.data[i] =
                    ApplyItemUpdate(ret'.f, state.storage.data[i])
          /\ state'.storage.head = state.storage.head
          /\ state'.storage.tail = state.storage.tail
          /\ state'.storage.full = state.storage.full]_vars

C16_Witness ==
    /\ ret.op = "update" /\ ret.f = "inc"
    /\ size_fn(state) > 0 /\ size_fn(state) < max_size
    /\ state.storage.data[max_size - 1] # 0

\* C17: once an item has been inserted, the logical size is at least 1 in
\* every later state of the same buffer, so sample_fn fails with the
\* empty-buffer error only on a buffer nothing was inserted into.
C17_NeverEmptyAgain ==
    /\ recent # <<>> => size_fn(state) >= 1
    /\ (ret.op = "sample" /\ ret.err) => recent = <<>>

C17_Witness ==
    /\ Len(recent) = max_size
    /\ size_fn(state) < max_size
    /\ ret.op = "sample" /\ ~ret.err /\ ret.bs > 0

\* C18: full implies head = tail, and head = tail with full false occurs
\* only while no add_fn or add_batch_fn has been applied since init_fn.
C18_FullAndEmptyCursors ==
    /\ state.storage.full => state.storage.head = state.storage.tail
    /\ (state.storage.head = state.storage.tail /\ ~state.storage.full) =>
          ~applied

C18_Witness ==
    /\ applied
    /\ state.storage.full
    /\ state.storage.head = state.storage.tail
    /\ state.storage.head > 0

\* C19: in every reachable state, full false implies tail = 0.
C19_NonFullTailZero ==
    ~state.storage.full => state.storage.tail = 0

C19_Witness ==
    /\ ret.op = "add_batch"
    /\ ret.was.full /\ ret.was.tail > 0
    /\ ~state.storage.full
    /\ state.storage.head > 0

\* C20: add_batch_fn with an empty batch returns a state with the same
\* head, tail, full and logical size as its input.
C20_EmptyBatchNoOp ==
    (ret.op = "add_batch" /\ ret.arg = <<>>) => Cursor(state) = ret.was
====
